---- MODULE Spec2Model ----
(***************************************************************************)
(* Layout generation and furniture placement of FurnitureIntelligence:     *)
(* utils/layout_generator.py and the placement part of                     *)
(* utils/visualization.py.                                                 *)
(*                                                                         *)
(* Numbers.  The program computes with Python floats (IEEE-754 binary64).  *)
(* A float is modelled exactly as a pair <<t, d>> read under a decimal     *)
(* denominator D: its value is (t * 2^60 + d) / (D * 2^60), i.e. the       *)
(* decimal t/D plus a deviation of d units of 1/(D * 2^60).  Products,     *)
(* differences and comparisons are computed on the exact values and        *)
(* rounded to the nearest binary64 (ties to even) by RoundNearest.         *)
(***************************************************************************)
EXTENDS Integers, Sequences, FiniteSets, TLC

----------------------------------------------------------------------------
(* state *)

VARIABLES
    pc,                     \* position in the running function
    error,                  \* exception raised, "" if none
    length, width,          \* generate_layout_suggestions arguments
    room_type, style, budget,
    furniture_requirements,
    layouts,                \* generate_room_layout: options built so far
    i,                      \* generate_room_layout: for i in range(3)
    layout,                 \* generate_room_layout: option under construction
    available_area,         \* float, read under denominator 1000
    j,                      \* index of the next requirement of the inner loop
    filtered_suggestions,
    furniture,              \* position_furniture arguments
    room_length, room_width,
    grid_length, grid_width,
    occupancy_grid,         \* shape (rows, columns) and cells [y, x] -> 0 or 1
    sorted_furniture,       \* indices into furniture, in attempt order
    k,                      \* index of the next item of sorted_furniture
    positioned_furniture

genVars   == << length, width, room_type, style, budget,
                furniture_requirements, layouts, i, layout, available_area,
                j, filtered_suggestions >>
placeVars == << furniture, room_length, room_width, grid_length, grid_width,
                occupancy_grid, sorted_furniture, k, positioned_furniture >>
vars      == << pc, error, genVars, placeVars >>

----------------------------------------------------------------------------
(* binary64 arithmetic *)

RECURSIVE Pow2(_)
Pow2(n) == IF n = 0 THEN 1 ELSE 2 * Pow2(n - 1)

RECURSIVE Pow2Mod(_, _)
Pow2Mod(n, m) == IF n = 0 THEN 1 % m ELSE (2 * Pow2Mod(n - 1, m)) % m

Sign(n) == IF n > 0 THEN 1 ELSE IF n < 0 THEN -1 ELSE 0

\* x >= 2^e for x = (t + (d + c*eps) / 2^60) / D, where c is the sign of a
\* term smaller than one unit of d.
FlAtLeastPow2(t, d, c, D, e) ==
    LET lhs == IF e >= 0 THEN t ELSE t * Pow2(-e)
        rhs == IF e >= 0 THEN D * Pow2(e) ELSE D
    IN  lhs > rhs \/ (lhs = rhs /\ (d > 0 \/ (d = 0 /\ c >= 0)))

\* floor(log2 x), the binary exponent of x
FlExponent(t, d, c, D) ==
    CHOOSE e \in -8..12 :
        FlAtLeastPow2(t, d, c, D, e) /\ ~FlAtLeastPow2(t, d, c, D, e + 1)

\* The binary64 nearest to the exact value x (round half to even).  The grid
\* of binary64 values around x has spacing 2^(e-52) = 2^(e+8) / 2^60.
\* Values below 2^-8 only arise as differences of nearby floats, which are
\* exact (Sterbenz), so they are returned as they are.
RoundNearest(t, d, c, D) ==
    IF t * 256 < D THEN <<t, d>>
    ELSE LET e    == FlExponent(t, d, c, D)
             u    == Pow2(e + 8)
             g    == D * u
             r    == (u * (((t % D) * Pow2Mod(52 - e, D)) % D) + d) % g
             lo   == d - r
             q    == lo \div u
             even == (((t % (2 * D)) * Pow2Mod(52 - e, 2 * D)) + q) % (2 * D) = 0
             up   == 2 * r > g \/ (2 * r = g /\ (c > 0 \/ (c = 0 /\ ~even)))
         IN  <<t, IF up THEN lo + g ELSE lo>>

\* the float written as the decimal literal t/D
FloatLit(t, D) == RoundNearest(t, 0, 0, D)

\* a >= b for floats under the same denominator
FlGeq(a, b) == a[1] > b[1] \/ (a[1] = b[1] /\ a[2] >= b[2])

\* a - b in float arithmetic
FlSub(a, b, D) == RoundNearest(a[1] - b[1], a[2] - b[2], 0, D)

\* n * a for an exactly represented n = num/den (den a power of two);
\* the result is read under denominator den * D
FlMulExact(num, a, D, den) == RoundNearest(num * a[1], num * a[2], 0, den * D)

\* a * b for floats under denominators Da and Db; result under Da * Db
FlMul(a, b, Da, Db) ==
    RoundNearest(a[1] * b[1], a[1] * b[2] + b[1] * a[2],
                 Sign(a[2]) * Sign(b[2]), Da * Db)

\* Python int() of a non-negative float: truncation
FlInt(a, D) ==
    IF a[1] % D = 0 /\ a[2] < 0 THEN (a[1] \div D) - 1 ELSE a[1] \div D

\* re-read a float under the denominator factor * D
FlRescale(a, factor) == <<factor * a[1], factor * a[2]>>

----------------------------------------------------------------------------
(* static tables of layout_generator.py *)

\* lengths are written in tenths of a metre, areas in tenths of a square
\* metre, multipliers in hundredths: the decimal literals of the source
Req(type, priority, min_area) ==
    [type |-> type, priority |-> priority, min_area |-> min_area]

\* variant: an unknown room type falls back to the first catalog entry
get_furniture_requirements_fallback(room_type_) ==
    IF room_type_ \in {"Bedroom", "Home Office", "Dining Room", "Kitchen"}
    THEN << [type |-> "bed", priority |-> 1, min_area |-> 35] >>
    ELSE << [type |-> "sofa", priority |-> 1, min_area |-> 20] >>

get_furniture_requirements(room_type_) ==
    CASE room_type_ = "Living Room" ->
            << Req("sofa", 1, 20), Req("coffee_table", 2, 6),
               Req("tv_stand", 2, 10), Req("armchair", 3, 8) >>
      [] room_type_ = "Bedroom" ->
            << Req("bed", 1, 35), Req("wardrobe", 1, 12),
               Req("nightstand", 2, 2) >>
      [] room_type_ = "Home Office" ->
            << Req("desk", 1, 12), Req("office_chair", 1, 4),
               Req("bookshelf", 2, 8) >>
      [] room_type_ = "Dining Room" ->
            << Req("dining_table", 1, 20), Req("chairs", 1, 4),
               Req("sideboard", 2, 10) >>
      [] room_type_ = "Kitchen" ->
            << Req("counter", 1, 20), Req("storage", 1, 15),
               Req("dining_set", 2, 12) >>
      [] OTHER -> << >>

\* variant: the entries of Modern and Scandinavian exchanged
style_multipliers_swapped(style_) ==
    CASE style_ = "Modern" -> 130
      [] style_ = "Traditional" -> 110
      [] style_ = "Minimalist" -> 100
      [] style_ = "Scandinavian" -> 120
      [] style_ = "Industrial" -> 115
      [] OTHER -> 100

style_multipliers(style_) ==
    CASE style_ = "Modern" -> 120
      [] style_ = "Traditional" -> 110
      [] style_ = "Minimalist" -> 100
      [] style_ = "Scandinavian" -> 130
      [] style_ = "Industrial" -> 115
      [] OTHER -> 100

base_prices(type) ==
    CASE type = "sofa" -> 1000
      [] type = "coffee_table" -> 200
      [] type = "tv_stand" -> 300
      [] type = "armchair" -> 400
      [] type = "bed" -> 800
      [] type = "wardrobe" -> 600
      [] type = "nightstand" -> 100
      [] type = "desk" -> 400
      [] type = "office_chair" -> 200
      [] type = "bookshelf" -> 300
      [] type = "dining_table" -> 600
      [] type = "chairs" -> 150
      [] type = "sideboard" -> 400
      [] type = "counter" -> 800
      [] type = "storage" -> 500
      [] type = "dining_set" -> 700
      [] OTHER -> 300

Dim(l, w) == [length |-> l, width |-> w]

get_furniture_dimensions(furniture_type) ==
    CASE furniture_type = "sofa" -> Dim(20, 9)
      [] furniture_type = "coffee_table" -> Dim(9, 6)
      [] furniture_type = "tv_stand" -> Dim(15, 5)
      [] furniture_type = "armchair" -> Dim(8, 8)
      [] furniture_type = "bed" -> Dim(20, 16)
      [] furniture_type = "wardrobe" -> Dim(12, 6)
      [] furniture_type = "nightstand" -> Dim(4, 4)
      [] furniture_type = "desk" -> Dim(12, 6)
      [] furniture_type = "office_chair" -> Dim(6, 6)
      [] furniture_type = "bookshelf" -> Dim(8, 3)
      [] furniture_type = "dining_table" -> Dim(16, 9)
      [] furniture_type = "chairs" -> Dim(5, 5)
      [] furniture_type = "sideboard" -> Dim(12, 4)
      [] furniture_type = "counter" -> Dim(20, 6)
      [] furniture_type = "storage" -> Dim(10, 6)
      [] furniture_type = "dining_set" -> Dim(12, 12)
      [] OTHER -> Dim(10, 10)

\* int(base_price * multiplier)
generate_furniture_item(requirement, style_) ==
    [ type       |-> requirement.type,
      price      |-> FlInt(FlMulExact(base_prices(requirement.type),
                                      FloatLit(style_multipliers(style_), 100),
                                      100, 1), 100),
      style      |-> style_,
      dimensions |-> get_furniture_dimensions(requirement.type) ]

\* str.lower() on the room types the model feeds in
Lower(s) ==
    CASE s = "Living Room" -> "living room"
      [] s = "Bedroom" -> "bedroom"
      [] s = "Home Office" -> "home office"
      [] s = "Dining Room" -> "dining room"
      [] s = "Kitchen" -> "kitchen"
      [] s = "Garage" -> "garage"
      [] OTHER -> s

\* the f-string, kept as its four interpolated parts
generate_layout_description(layout_, style_, room_type_) ==
    LET furniture_count == Len(layout_.furniture)
        total_cost == layout_.cost
        base_description ==
            CASE style_ = "Modern" ->
                   "Clean lines and contemporary pieces create a sophisticated space"
              [] style_ = "Traditional" ->
                   "Classic furniture arrangement for timeless appeal"
              [] style_ = "Minimalist" ->
                   "Essential pieces arranged for maximum functionality"
              [] style_ = "Scandinavian" ->
                   "Light and airy layout with functional Nordic design"
              [] style_ = "Industrial" ->
                   "Raw and refined elements combine for an urban feel"
              [] OTHER -> "Balanced and functional layout"
    IN  << base_description, Lower(room_type_), furniture_count, total_cost >>

generate_layout_features(layout_, style_) ==
    LET style_features ==
            CASE style_ = "Modern" ->
                   << "Contemporary materials", "Minimal ornamentation",
                      "Bold geometric shapes" >>
              [] style_ = "Traditional" ->
                   << "Classic patterns", "Symmetrical arrangement",
                      "Rich textures" >>
              [] style_ = "Minimalist" ->
                   << "Clean spaces", "Functional design", "Neutral colors" >>
              [] style_ = "Scandinavian" ->
                   << "Light woods", "Natural materials", "Bright spaces" >>
              [] style_ = "Industrial" ->
                   << "Raw materials", "Open layout", "Metallic accents" >>
              [] OTHER -> << "Balanced design", "Functional layout" >>
        furniture_types == [n \in 1..Len(layout_.furniture) |->
                               layout_.furniture[n].type]
        f1 == IF Len(furniture_types) >= 3
              THEN style_features \o << "Complete room setup" >>
              ELSE style_features
    IN  IF layout_.cost < 2000 THEN f1 \o << "Budget-friendly selection" >>
        ELSE IF layout_.cost > 5000 THEN f1 \o << "Premium quality pieces" >>
        ELSE f1

\* variant: the lower end of the range exclusive
RECURSIVE filter_by_budget_exclusive(_, _)
filter_by_budget_exclusive(layouts_, budget_) ==
    IF layouts_ = << >> THEN << >>
    ELSE LET head == Head(layouts_)
             rest == filter_by_budget_exclusive(Tail(layouts_), budget_)
         IN  IF budget_[1] < head.cost /\ head.cost <= budget_[2]
             THEN << head >> \o rest
             ELSE rest

\* [layout for layout in layouts if min_budget <= layout['cost'] <= max_budget]
RECURSIVE filter_by_budget(_, _)
filter_by_budget(layouts_, budget_) ==
    LET min_budget == budget_[1]
        max_budget == budget_[2]
    IN  IF layouts_ = << >> THEN << >>
        ELSE LET head == Head(layouts_)
                 rest == filter_by_budget(Tail(layouts_), budget_)
             IN  IF min_budget <= head.cost /\ head.cost <= max_budget
                 THEN << head >> \o rest
                 ELSE rest

----------------------------------------------------------------------------
(* inputs *)

\* room lengths and widths fed to the program, in tenths of a metre
LengthValues == {5, 10, 12, 20, 35, 50, 70}
WidthValues  == {10, 20, 40}

RoomTypes == {"Living Room", "Bedroom", "Home Office", "Dining Room",
              "Kitchen", "Garage"}
Styles    == {"Modern", "Traditional", "Minimalist", "Scandinavian",
              "Industrial", "Rustic"}

BudgetValues == {0, 2000, 5000}
Budgets == {b \in BudgetValues \X BudgetValues : b[1] <= b[2]}

----------------------------------------------------------------------------
(* initial state *)

\* an empty LayoutOption, layout_generator.py lines 120-126
NewLayout(n) ==
    [id |-> n, furniture |-> << >>, cost |-> 0,
     description |-> << >>, features |-> << >>]

Init ==
    /\ pc = "idle"
    /\ error = ""
    /\ length = 0 /\ width = 0
    /\ room_type = "" /\ style = "" /\ budget = << 0, 0 >>
    /\ furniture_requirements = << >>
    /\ layouts = << >>
    /\ i = 0
    /\ layout = NewLayout(0)
    /\ available_area = << 0, 0 >>
    /\ j = 0
    /\ filtered_suggestions = << >>
    /\ furniture = << >>
    /\ room_length = 0 /\ room_width = 0
    /\ grid_length = 0 /\ grid_width = 0
    /\ occupancy_grid = << >>
    /\ sorted_furniture = << >>
    /\ k = 0
    /\ positioned_furniture = << >>

----------------------------------------------------------------------------
(* generate_layout_suggestions and generate_room_layout *)

\* variant: nothing kept back for movement space
UsableAreaWhole(l, w) ==
    FlRescale(FlMul(FloatLit(l, 10), FloatLit(w, 10), 10, 10), 10)

\* area = length * width; area * 0.7, read under denominator 1000
UsableArea(l, w) ==
    FlMul(FlMul(FloatLit(l, 10), FloatLit(w, 10), 10, 10),
          FloatLit(7, 10), 100, 10)

\* the min_area literals (up to 3.5) as floats under denominator 1000,
\* tabulated once
RECURSIVE MinAreasBetween(_, _)
MinAreasBetween(lo, hi) ==
    IF lo = hi
    THEN lo :> FlRescale(FloatLit(lo, 10), 100)
    ELSE MinAreasBetween(lo, (lo + hi) \div 2)
            @@ MinAreasBetween((lo + hi) \div 2 + 1, hi)

MinAreaTable == MinAreasBetween(0, 35)

\* item['min_area']
MinArea(item) == MinAreaTable[item.min_area]

\* lines 29-35: the call, up to the entry of generate_room_layout
GenerateLayoutSuggestions ==
    /\ pc = "idle"
    /\ \E l \in LengthValues, w \in WidthValues, rt \in RoomTypes,
          st \in Styles, b \in Budgets :
          /\ length' = l /\ width' = w
          /\ room_type' = rt /\ style' = st /\ budget' = b
          /\ furniture_requirements' = get_furniture_requirements(rt)
    /\ layouts' = << >>
    /\ i' = 0
    /\ pc' = "for_i"
    /\ UNCHANGED << error, layout, available_area, j, filtered_suggestions,
                    placeVars >>

\* variant: available_area set once, before the loop over the options
BeginOptionShared ==
    /\ pc = "for_i"
    /\ i < 3
    /\ layout' = NewLayout(i + 1)
    /\ available_area' = IF i = 0 THEN UsableArea(length, width)
                                  ELSE available_area
    /\ j' = 1
    /\ pc' = "for_item"
    /\ UNCHANGED << error, length, width, room_type, style, budget,
                    furniture_requirements, layouts, i, filtered_suggestions,
                    placeVars >>

\* lines 119-129: next iteration of for i in range(3)
BeginOption ==
    /\ pc = "for_i"
    /\ i < 3
    /\ layout' = NewLayout(i + 1)
    /\ available_area' = UsableArea(length, width)
    /\ j' = 1
    /\ pc' = "for_item"
    /\ UNCHANGED << error, length, width, room_type, style, budget,
                    furniture_requirements, layouts, i, filtered_suggestions,
                    placeVars >>

\* variant: the price assigned to the cost instead of added
SelectItemAssign ==
    /\ pc = "for_item"
    /\ j <= Len(furniture_requirements)
    /\ LET item == furniture_requirements[j]
           furniture_item == generate_furniture_item(item, style)
       IN  /\ FlGeq(available_area, MinArea(item))
           /\ layout' = [layout EXCEPT
                            !.furniture = Append(@, furniture_item),
                            !.cost = furniture_item.price]
           /\ available_area' = FlSub(available_area, MinArea(item), 1000)
    /\ j' = j + 1
    /\ UNCHANGED << pc, error, length, width, room_type, style, budget,
                    furniture_requirements, layouts, i, filtered_suggestions,
                    placeVars >>

\* lines 130-135: the archetype fits
SelectItem ==
    /\ pc = "for_item"
    /\ j <= Len(furniture_requirements)
    /\ LET item == furniture_requirements[j]
           furniture_item == generate_furniture_item(item, style)
       IN  /\ FlGeq(available_area, MinArea(item))
           /\ layout' = [layout EXCEPT
                            !.furniture = Append(@, furniture_item),
                            !.cost = @ + furniture_item.price]
           /\ available_area' = FlSub(available_area, MinArea(item), 1000)
    /\ j' = j + 1
    /\ UNCHANGED << pc, error, length, width, room_type, style, budget,
                    furniture_requirements, layouts, i, filtered_suggestions,
                    placeVars >>

\* lines 130-131: the archetype does not fit and is passed over
SkipItem ==
    /\ pc = "for_item"
    /\ j <= Len(furniture_requirements)
    /\ ~FlGeq(available_area, MinArea(furniture_requirements[j]))
    /\ j' = j + 1
    /\ UNCHANGED << pc, error, length, width, room_type, style, budget,
                    furniture_requirements, layouts, i, layout,
                    available_area, filtered_suggestions, placeVars >>

\* lines 137-141: description, features, append to layouts
FinishOption ==
    /\ pc = "for_item"
    /\ j > Len(furniture_requirements)
    /\ LET described == [layout EXCEPT !.description =
                            generate_layout_description(layout, style,
                                                        room_type)]
           featured  == [described EXCEPT !.features =
                            generate_layout_features(described, style)]
       IN  /\ layout' = featured
           /\ layouts' = Append(layouts, featured)
    /\ i' = i + 1
    /\ pc' = "for_i"
    /\ UNCHANGED << error, length, width, room_type, style, budget,
                    furniture_requirements, available_area, j,
                    filtered_suggestions, placeVars >>

\* line 143 and line 43: generate_room_layout returns, the options are
\* filtered by budget
FilterSuggestions ==
    /\ pc = "for_i"
    /\ i = 3
    /\ filtered_suggestions' = filter_by_budget(layouts, budget)
    /\ pc' = "recommend"
    /\ UNCHANGED << error, length, width, room_type, style, budget,
                    furniture_requirements, layouts, i, layout,
                    available_area, j, placeVars >>

\* line 46: the name generate_recommendations is bound nowhere in the
\* module (no def, no import), so evaluating it raises NameError and the
\* return statement of lines 52-55 is not reached
GenerateRecommendations ==
    /\ pc = "recommend"
    /\ error' = "NameError"
    /\ pc' = "raised"
    /\ UNCHANGED << genVars, placeVars >>

Next ==
    \/ GenerateLayoutSuggestions
    \/ BeginOption
    \/ SelectItem
    \/ SkipItem
    \/ FinishOption
    \/ FilterSuggestions
    \/ GenerateRecommendations

Spec == Init /\ [][Next]_vars

----------------------------------------------------------------------------
(* filter_by_budget called on its own *)

MaxLayouts == 3

CostValues == {0, 1800, 2000, 3000, 5000, 5001}

SeqsUpTo(S, n) == UNION {[1..m -> S] : m \in 0..n}

\* layout lists with ids 1..n and arbitrary costs
LayoutLists ==
    {[n \in 1..Len(cs) |-> [NewLayout(n) EXCEPT !.cost = cs[n]]] :
        cs \in SeqsUpTo(CostValues, MaxLayouts)}

FilterByBudget ==
    /\ pc = "idle"
    /\ \E ls \in LayoutLists, b \in BudgetValues \X BudgetValues :
          /\ layouts' = ls
          /\ budget' = b
          /\ filtered_suggestions' = filter_by_budget(ls, b)
    /\ pc' = "filtered"
    /\ UNCHANGED << error, length, width, room_type, style,
                    furniture_requirements, i, layout, available_area, j,
                    placeVars >>

NextFilter == FilterByBudget

SpecFilter == Init /\ [][NextFilter]_vars

----------------------------------------------------------------------------
(* position_furniture and find_furniture_position, visualization.py *)

MaxFurniture == 3

PlaceTypes == {"bed", "sofa", "dining_table", "dining_set", "desk",
               "wardrobe", "nightstand", "bookshelf"}
PlaceItems == {generate_furniture_item([type |-> t], "Modern") :
                  t \in PlaceTypes}
PlaceLengths == {5, 12, 20, 25, 40}
PlaceWidths  == {5, 10, 16, 20}

\* None; find_furniture_position otherwise returns a 2-tuple, which is truthy
None == << >>

\* int(v / grid_size) with grid_size = 0.5, for every length v of up to
\* 20.0 m (tabulated once); dividing by 0.5 is exact
RECURSIVE GridUnitsBetween(_, _)
GridUnitsBetween(lo, hi) ==
    IF lo = hi
    THEN lo :> FlInt(FlMulExact(2, FloatLit(lo, 10), 10, 1), 10)
    ELSE GridUnitsBetween(lo, (lo + hi) \div 2)
            @@ GridUnitsBetween((lo + hi) \div 2 + 1, hi)

GridUnitsTable == GridUnitsBetween(0, 200)

\* variant: a length below one cell counted as one cell
ToGridUnitsAtLeastOne(v) ==
    IF GridUnitsTable[v] = 0 THEN 1 ELSE GridUnitsTable[v]

ToGridUnits(v) == GridUnitsTable[v]

\* np.zeros((rows, cols)): cells are indexed [y][x] from 0
Zeros(rows, cols) ==
    [shape |-> << rows, cols >>,
     cell  |-> [c \in (0..rows - 1) \X (0..cols - 1) |-> 0]]

\* the cells of the slice [y:y+item_width, x:x+item_length], clipped to the
\* array as numpy slicing does
Slice(grid, y, x, item_width, item_length) ==
    LET rows == grid.shape[1]
        cols == grid.shape[2]
        yEnd == IF y + item_width < rows THEN y + item_width ELSE rows
        xEnd == IF x + item_length < cols THEN x + item_length ELSE cols
    IN  (y..yEnd - 1) \X (x..xEnd - 1)

\* variant: the slice taken with its axes exchanged
AnyOccupiedSwapped(grid, y, x, item_width, item_length) ==
    \E c \in Slice(grid, x, y, item_length, item_width) : grid.cell[c] # 0

\* np.any(occupancy_grid[y:y+item_width, x:x+item_length])
AnyOccupied(grid, y, x, item_width, item_length) ==
    \E c \in Slice(grid, y, x, item_width, item_length) : grid.cell[c] # 0

\* the two nested range loops of lines 168-171, entered at (x, y)
RECURSIVE ScanFrom(_, _, _, _, _)
ScanFrom(grid, item_length, item_width, x, y) ==
    LET grid_height == grid.shape[1]
        grid_width_ == grid.shape[2]
    IN  IF y >= grid_height - item_width + 1 THEN None
        ELSE IF x >= grid_width_ - item_length + 1
             THEN ScanFrom(grid, item_length, item_width, 0, y + 1)
        ELSE IF ~AnyOccupied(grid, y, x, item_width, item_length)
             THEN << x, y >>
        ELSE ScanFrom(grid, item_length, item_width, x + 1, y)

\* variant: both range bounds one short (the "+ 1" left out)
RECURSIVE ScanFromShort(_, _, _, _, _)
ScanFromShort(grid, item_length, item_width, x, y) ==
    IF y >= grid.shape[1] - item_width THEN None
    ELSE IF x >= grid.shape[2] - item_length
         THEN ScanFromShort(grid, item_length, item_width, 0, y + 1)
    ELSE IF ~AnyOccupied(grid, y, x, item_width, item_length)
         THEN << x, y >>
    ELSE ScanFromShort(grid, item_length, item_width, x + 1, y)

find_furniture_position_short(grid, item_length, item_width) ==
    ScanFromShort(grid, item_length, item_width, 0, 0)

find_furniture_position(grid, item_length, item_width) ==
    ScanFrom(grid, item_length, item_width, 0, 0)

\* length * width as a float read under denominator 100, for every pair of
\* furniture dimensions of up to 2.0 m (tabulated once)
RECURSIVE AreasBetween(_, _)
AreasBetween(lo, hi) ==
    IF lo = hi
    THEN << lo \div 21, lo % 21 >> :>
            FlMul(FloatLit(lo \div 21, 10), FloatLit(lo % 21, 10), 10, 10)
    ELSE AreasBetween(lo, (lo + hi) \div 2)
            @@ AreasBetween((lo + hi) \div 2 + 1, hi)

AreaTable == AreasBetween(0, 440)

\* the sort key x['dimensions']['length'] * x['dimensions']['width']
AreaKey(item) == AreaTable[<< item.dimensions.length, item.dimensions.width >>]

\* variant: an element goes in front of the elements of equal key
RECURSIVE InsertByAreaUnstable(_, _, _)
InsertByAreaUnstable(sorted, n, key) ==
    IF sorted = << >> THEN << n >>
    ELSE IF FlGeq(key[Head(sorted)], key[n]) /\ key[Head(sorted)] # key[n]
         THEN << Head(sorted) >> \o InsertByAreaUnstable(Tail(sorted), n, key)
         ELSE << n >> \o sorted

\* sorted(..., reverse=True) keeps elements of equal key in input order:
\* index n goes in front of the first element of strictly smaller key
RECURSIVE InsertByArea(_, _, _)
InsertByArea(sorted, n, key) ==
    IF sorted = << >> THEN << n >>
    ELSE IF FlGeq(key[Head(sorted)], key[n])
         THEN << Head(sorted) >> \o InsertByArea(Tail(sorted), n, key)
         ELSE << n >> \o sorted

RECURSIVE SortedPrefix(_, _)
SortedPrefix(key, n) ==
    IF n = 0 THEN << >>
    ELSE InsertByArea(SortedPrefix(key, n - 1), n, key)

\* lines 116-120, as the indices of furniture in sorted order
SortByAreaDesc(furn) ==
    SortedPrefix([n \in 1..Len(furn) |-> AreaKey(furn[n])], Len(furn))

\* lines 107-120: the call, up to the entry of the placement loop
PositionFurniture ==
    /\ pc = "idle"
    /\ \E f \in SeqsUpTo(PlaceItems, MaxFurniture),
          rl \in PlaceLengths, rw \in PlaceWidths :
          /\ furniture' = f
          /\ room_length' = rl /\ room_width' = rw
          /\ grid_length' = ToGridUnits(rl)
          /\ grid_width' = ToGridUnits(rw)
          /\ occupancy_grid' = Zeros(ToGridUnits(rw), ToGridUnits(rl))
          /\ sorted_furniture' = SortByAreaDesc(f)
    /\ positioned_furniture' = << >>
    /\ k' = 1
    /\ pc' = "for_sorted"
    /\ UNCHANGED << error, genVars >>

\* occupancy_grid[y:y+item_width, x:x+item_length] = 1
MarkOccupied(grid, y, x, item_width, item_length) ==
    [grid EXCEPT !.cell =
        [c \in DOMAIN grid.cell |->
            IF c \in Slice(grid, y, x, item_width, item_length)
            THEN 1 ELSE grid.cell[c]]]

\* item.copy() with position = (x * grid_size, y * grid_size), in tenths of
\* a metre (multiples of 0.5 are exact)
Positioned(item, x, y) ==
    [type |-> item.type, price |-> item.price, style |-> item.style,
     dimensions |-> item.dimensions, position |-> << 5 * x, 5 * y >>]

\* lines 122-143: one iteration for which a position is found
PlaceItem ==
    /\ pc = "for_sorted"
    /\ k <= Len(sorted_furniture)
    /\ LET item        == furniture[sorted_furniture[k]]
           item_length == ToGridUnits(item.dimensions.length)
           item_width  == ToGridUnits(item.dimensions.width)
           position    == find_furniture_position(occupancy_grid,
                                                  item_length, item_width)
       IN  /\ position # None
           /\ occupancy_grid' = MarkOccupied(occupancy_grid, position[2],
                                    position[1], item_width, item_length)
           /\ positioned_furniture' =
                 Append(positioned_furniture,
                        Positioned(item, position[1], position[2]))
    /\ k' = k + 1
    /\ UNCHANGED << pc, error, genVars, furniture, room_length, room_width,
                    grid_length, grid_width, sorted_furniture >>

\* lines 122-135: one iteration for which find_furniture_position is None
DropItem ==
    /\ pc = "for_sorted"
    /\ k <= Len(sorted_furniture)
    /\ LET item        == furniture[sorted_furniture[k]]
           item_length == ToGridUnits(item.dimensions.length)
           item_width  == ToGridUnits(item.dimensions.width)
       IN  find_furniture_position(occupancy_grid, item_length, item_width)
              = None
    /\ k' = k + 1
    /\ UNCHANGED << pc, error, genVars, furniture, room_length, room_width,
                    grid_length, grid_width, occupancy_grid,
                    sorted_furniture, positioned_furniture >>

\* line 145
ReturnPositioned ==
    /\ pc = "for_sorted"
    /\ k > Len(sorted_furniture)
    /\ pc' = "positioned"
    /\ UNCHANGED << error, genVars, placeVars >>

NextPlace ==
    \/ PositionFurniture
    \/ PlaceItem
    \/ DropItem
    \/ ReturnPositioned

SpecPlace == Init /\ [][NextPlace]_vars

-----------------------------------------------------------------------------
(* create_layout_visualization on the options generate_room_layout returns *)

\* visualization.py lines 45-49: the first layout option, if there is one,
\* goes to position_furniture with the room's length and width; the option
\* is taken as generate_room_layout returned it (the three options hold the
\* same furniture, and filter_by_budget changes no option it keeps)
CreateLayoutVisualization ==
    /\ pc = "for_i"
    /\ i = 3
    /\ layouts # << >>
    /\ furniture' = layouts[1].furniture
    /\ room_length' = length /\ room_width' = width
    /\ grid_length' = ToGridUnits(length)
    /\ grid_width' = ToGridUnits(width)
    /\ occupancy_grid' = Zeros(ToGridUnits(width), ToGridUnits(length))
    /\ sorted_furniture' = SortByAreaDesc(layouts[1].furniture)
    /\ positioned_furniture' = << >>
    /\ k' = 1
    /\ pc' = "for_sorted"
    /\ UNCHANGED << error, genVars >>

NextVisual ==
    \/ GenerateLayoutSuggestions
    \/ BeginOption
    \/ SelectItem
    \/ SkipItem
    \/ FinishOption
    \/ CreateLayoutVisualization
    \/ PlaceItem
    \/ DropItem
    \/ ReturnPositioned

SpecVisual == Init /\ [][NextVisual]_vars

----------------------------------------------------------------------------
(* properties of the generation *)

\* generate_room_layout has returned
Generated == (pc = "for_i" /\ i = 3) \/ pc \in {"recommend", "raised"}

\* filter_by_budget has run inside generate_layout_suggestions
Filtered == pc \in {"recommend", "raised"}

RECURSIVE SumPrices(_)
SumPrices(items) ==
    IF items = << >> THEN 0 ELSE Head(items).price + SumPrices(Tail(items))

TypesOf(items) == [n \in 1..Len(items) |-> items[n].type]

\* C2: generate_layout_suggestions completes without raising and returns
\* 'layout_options' and 'recommendations', one {description, cost, features}
\* projection per filtered option: once the options are filtered the call
\* goes on to return, with no exception raised.
C2_ReturnsRecommendations ==
    /\ error = ""
    /\ pc # "raised"

\* C3: filter_by_budget returns exactly the options whose cost lies in
\* [min, max], both ends included, each once and in their input order (the
\* options of the input carry their index as id).
C3_FilterExact ==
    pc = "filtered" =>
        LET res == filtered_suggestions
        IN  /\ \A m \in 1..Len(res) :
                  res[m].id \in 1..Len(layouts) /\ res[m] = layouts[res[m].id]
            /\ \A m, n \in 1..Len(res) : m < n => res[m].id < res[n].id
            /\ {res[m].id : m \in 1..Len(res)} =
                  {n \in 1..Len(layouts) :
                      budget[1] <= layouts[n].cost
                         /\ layouts[n].cost <= budget[2]}

\* kept at both ends of the range, with an option dropped in between
C3_Witness ==
    /\ pc = "filtered"
    /\ budget[1] < budget[2]
    /\ Len(layouts) = 3
    /\ Len(filtered_suggestions) = 2
    /\ filtered_suggestions[1].id = 1
    /\ filtered_suggestions[1].cost = budget[2]
    /\ filtered_suggestions[2].id = 3
    /\ filtered_suggestions[2].cost = budget[1]

\* min_area (tenths of a square metre) of the archetype of a selected item
MinAreaOfType(type) ==
    LET n == CHOOSE m \in 1..Len(furniture_requirements) :
                furniture_requirements[m].type = type
    IN  furniture_requirements[n].min_area

RECURSIVE SumMinArea(_)
SumMinArea(items) ==
    IF items = << >> THEN 0
    ELSE MinAreaOfType(Head(items).type) + SumMinArea(Tail(items))

\* s is a subsequence of t
RECURSIVE IsSubSeq(_, _)
IsSubSeq(s, t) ==
    IF s = << >> THEN TRUE
    ELSE IF t = << >> THEN FALSE
    ELSE IF Head(s) = Head(t) THEN IsSubSeq(Tail(s), Tail(t))
    ELSE IsSubSeq(s, Tail(t))

\* C4: each option starts from 0.7 x room area; every archetype is visited
\* once, in catalog order, and is selected exactly when the available area
\* is at least its min_area, which selection subtracts; a skipped archetype
\* changes nothing and the pass goes on.  So the available area is never
\* negative, the selected min_areas sum to at most 0.7 x room area, and the
\* selected furniture is a subsequence of the catalog list.
C4_GreedySelection ==
    /\ [](pc = "for_item" =>
            /\ FlGeq(available_area, << 0, 0 >>)
            /\ 100 * SumMinArea(layout.furniture) <= 7 * length * width
            /\ IsSubSeq(TypesOf(layout.furniture),
                        TypesOf(furniture_requirements)))
    /\ [][ /\ (pc = "for_i" /\ pc' = "for_item") =>
                /\ available_area'[1] = 7 * length * width
                /\ layout'.furniture = << >>
                /\ j' = 1
           /\ (pc = "for_item" /\ j <= Len(furniture_requirements)) =>
                LET item == furniture_requirements[j]
                IN  /\ j' = j + 1
                    /\ pc' = "for_item"
                    /\ IF FlGeq(available_area, MinArea(item))
                       THEN /\ Len(layout'.furniture)
                                  = Len(layout.furniture) + 1
                            /\ SubSeq(layout'.furniture, 1,
                                      Len(layout.furniture))
                                  = layout.furniture
                            /\ layout'.furniture[Len(layout'.furniture)].type
                                  = item.type
                            /\ available_area' =
                                  FlSub(available_area, MinArea(item), 1000)
                       ELSE /\ layout'.furniture = layout.furniture
                            /\ available_area' = available_area
         ]_vars

\* the first archetype was skipped, a later one selected, and the pass has
\* ended with area left over
C4_Witness ==
    /\ pc = "for_item"
    /\ j > Len(furniture_requirements)
    /\ Len(layout.furniture) >= 1
    /\ layout.furniture[1].type # furniture_requirements[1].type
    /\ Len(layout.furniture) < Len(furniture_requirements) - 1

\* C5: the cost of the option under construction, of every generated option
\* and of every option that survives the budget filter is the sum of the
\* prices of the items in its furniture list.
C5_CostIsSum ==
    /\ pc \in {"for_i", "for_item", "recommend", "raised"} =>
          layout.cost = SumPrices(layout.furniture)
    /\ \A n \in 1..Len(layouts) :
          layouts[n].cost = SumPrices(layouts[n].furniture)
    /\ \A n \in 1..Len(filtered_suggestions) :
          filtered_suggestions[n].cost
             = SumPrices(filtered_suggestions[n].furniture)

\* options of several items and positive cost survive the filter
C5_Witness ==
    /\ pc = "recommend"
    /\ Len(filtered_suggestions) = 3
    /\ Len(filtered_suggestions[1].furniture) >= 3
    /\ filtered_suggestions[1].cost > 0

CatalogKeys == {"Living Room", "Bedroom", "Home Office", "Dining Room",
                "Kitchen"}

\* C8: for a room type outside the catalog the requirements are empty,
\* every option has no furniture and cost 0, and the options pass the
\* budget filter exactly when the budget minimum is 0.
C8_UnknownRoomType ==
    (pc # "idle" /\ room_type \notin CatalogKeys) =>
        /\ furniture_requirements = << >>
        /\ layout.furniture = << >> /\ layout.cost = 0
        /\ \A n \in 1..Len(layouts) :
              layouts[n].furniture = << >> /\ layouts[n].cost = 0
        /\ Filtered =>
              IF budget[1] = 0 THEN filtered_suggestions = layouts
              ELSE filtered_suggestions = << >>

\* a Garage whose three empty options pass a budget starting at 0
C8_Witness ==
    /\ Filtered
    /\ room_type = "Garage"
    /\ budget[1] = 0
    /\ Len(filtered_suggestions) = 3

\* the float nearest to the decimal t/10, read under denominator 1000
Area(t) == FlRescale(FloatLit(t, 10), 100)

PricesOf(items) == [n \in 1..Len(items) |-> items[n].price]

\* C9: Bedroom, Modern, 5 x 4: the catalog is [bed, wardrobe, nightstand],
\* the available area is 14.0, then 10.5, then 9.3 as each is selected, the
\* prices are 960, 720, 120, every option costs 1800, and with budget
\* (2000, 5000) the filtered result is empty.
C9_BedroomScenario ==
    (pc # "idle" /\ room_type = "Bedroom" /\ style = "Modern"
        /\ length = 50 /\ width = 40) =>
        /\ TypesOf(furniture_requirements)
              = << "bed", "wardrobe", "nightstand" >>
        /\ pc = "for_item" =>
              /\ j = 1 => available_area = Area(140)
              /\ j = 2 => available_area = Area(105)
              /\ j = 3 => available_area = Area(93)
              /\ PricesOf(layout.furniture)
                    = SubSeq(<< 960, 720, 120 >>, 1, j - 1)
              /\ TypesOf(layout.furniture)
                    = SubSeq(<< "bed", "wardrobe", "nightstand" >>, 1, j - 1)
        /\ \A n \in 1..Len(layouts) :
              /\ PricesOf(layouts[n].furniture) = << 960, 720, 120 >>
              /\ layouts[n].cost = 1800
        /\ (Filtered /\ budget = << 2000, 5000 >>) =>
              filtered_suggestions = << >>

\* the scenario has run through the filter with budget (2000, 5000)
C9_Witness ==
    /\ Filtered
    /\ room_type = "Bedroom" /\ style = "Modern"
    /\ length = 50 /\ width = 40
    /\ budget = << 2000, 5000 >>
    /\ Len(layouts) = 3

----------------------------------------------------------------------------
(* properties of the placement *)

Placing == pc \in {"for_sorted", "positioned"}

\* grid cells [y, y+itemRows) x [x, x+itemCols) of the n-th returned item
Block(n) ==
    LET p  == positioned_furniture[n]
        x0 == p.position[1] \div 5
        y0 == p.position[2] \div 5
    IN  (y0..y0 + ToGridUnits(p.dimensions.width) - 1)
           \X (x0..x0 + ToGridUnits(p.dimensions.length) - 1)

\* C1: at every step of the placement loop and on return, the blocks of any
\* two distinct placed items are disjoint, and every cell of the occupancy
\* grid is marked exactly when one (and only one) placed item covers it.
C1_NoOverlap ==
    Placing =>
        /\ \A a, b \in 1..Len(positioned_furniture) :
              a # b => Block(a) \cap Block(b) = {}
        /\ \A c \in DOMAIN occupancy_grid.cell :
              Cardinality({n \in 1..Len(positioned_furniture) :
                              c \in Block(n)}) = occupancy_grid.cell[c]

\* three items placed, each on at least one cell
C1_Witness ==
    /\ pc = "positioned"
    /\ Len(positioned_furniture) = 3
    /\ \A n \in 1..3 : Block(n) # {}

KeyOf(n) == AreaKey(furniture[n])

\* C6: the attempt order is a permutation of the input in which an earlier
\* item has a strictly larger area key (the product length * width the
\* program computes), or the same key and an earlier place in the input;
\* the returned items follow the same order.
C6_AttemptOrder ==
    Placing =>
        /\ Len(sorted_furniture) = Len(furniture)
        /\ {sorted_furniture[a] : a \in 1..Len(sorted_furniture)}
              = 1..Len(furniture)
        /\ \A a, b \in 1..Len(sorted_furniture) :
              a < b =>
                 LET m == sorted_furniture[a]
                     n == sorted_furniture[b]
                 IN  \/ FlGeq(KeyOf(m), KeyOf(n)) /\ KeyOf(m) # KeyOf(n)
                     \/ KeyOf(m) = KeyOf(n) /\ m < n
        /\ \A a, b \in 1..Len(positioned_furniture) :
              a < b => FlGeq(AreaKey(positioned_furniture[a]),
                             AreaKey(positioned_furniture[b]))

\* three items attempted, two of equal key given after a smaller one
C6_Witness ==
    /\ pc = "for_sorted"
    /\ k = 4
    /\ Len(furniture) = 3
    /\ KeyOf(2) = KeyOf(3)
    /\ KeyOf(2) # KeyOf(1) /\ FlGeq(KeyOf(2), KeyOf(1))
    /\ furniture[2].type # furniture[3].type

\* top-left cells (x, y) whose block is inside the grid and unoccupied
Fits(grid, item_length, item_width) ==
    {p \in (0..grid.shape[2]) \X (0..grid.shape[1]) :
        /\ p[2] + item_width <= grid.shape[1]
        /\ p[1] + item_length <= grid.shape[2]
        /\ \A c \in (p[2]..p[2] + item_width - 1)
                       \X (p[1]..p[1] + item_length - 1) : grid.cell[c] = 0}

\* first in row-major order: smallest y, then smallest x
FirstRowMajor(S) ==
    CHOOSE p \in S :
        \A q \in S : p[2] < q[2] \/ (p[2] = q[2] /\ p[1] <= q[1])

\* C10: each iteration of the placement loop places the attempted item at
\* the first row-major cell whose block is free and inside the grid, marks
\* exactly that block and records position (0.5 x, 0.5 y); when there is no
\* such cell it leaves grid and output unchanged; either way it raises
\* nothing and goes on to the next item.  The output never holds more items
\* than were attempted.
C10_FirstFit ==
    /\ [](Placing => Len(positioned_furniture) <= k - 1)
    /\ [][ (pc = "for_sorted" /\ k <= Len(sorted_furniture)) =>
             LET item == furniture[sorted_furniture[k]]
                 il   == ToGridUnits(item.dimensions.length)
                 iw   == ToGridUnits(item.dimensions.width)
             IN  /\ k' = k + 1
                 /\ pc' = "for_sorted"
                 /\ error' = ""
                 /\ \E fits \in {Fits(occupancy_grid, il, iw)} :
                     IF fits # {}
                     THEN \E p \in {FirstRowMajor(fits)} :
                             /\ positioned_furniture' =
                                   Append(positioned_furniture,
                                       [type |-> item.type,
                                        price |-> item.price,
                                        style |-> item.style,
                                        dimensions |-> item.dimensions,
                                        position |-> << 5 * p[1], 5 * p[2] >>])
                             /\ occupancy_grid'.shape = occupancy_grid.shape
                             /\ \A c \in DOMAIN occupancy_grid.cell :
                                   occupancy_grid'.cell[c] =
                                      IF /\ p[2] <= c[1] /\ c[1] < p[2] + iw
                                         /\ p[1] <= c[2] /\ c[2] < p[1] + il
                                      THEN 1 ELSE occupancy_grid.cell[c]
                     ELSE /\ positioned_furniture' = positioned_furniture
                          /\ occupancy_grid' = occupancy_grid
          ]_vars

\* the largest item was dropped, and an item attempted after it was placed
\* away from the origin
C10_Witness ==
    /\ pc = "positioned"
    /\ Len(furniture) = 3
    /\ Len(positioned_furniture) = 2
    /\ positioned_furniture[1].type # furniture[sorted_furniture[1]].type
    /\ positioned_furniture[2].position # << 0, 0 >>
    /\ Block(2) # {}

\* a dimension below the 0.5 m grid size (tenths of a metre)
BelowGridSize(v) == v < 5

\* C11: an item with a dimension below the grid size (0 columns or 0 rows)
\* is in the attempt order like any other, and when its turn comes and the
\* scan has a first position (its other dimension fits in the grid) it is
\* placed at (0, 0): its empty block reads as unoccupied, whether or not cell
\* (0, 0) is free, and marks no cell.
C11_ZeroSizedPlacedAtOrigin ==
    /\ [](Placing =>
            \A n \in 1..Len(furniture) :
               (BelowGridSize(furniture[n].dimensions.length)
                   \/ BelowGridSize(furniture[n].dimensions.width))
               => \E a \in 1..Len(sorted_furniture) : sorted_furniture[a] = n)
    /\ [][ (pc = "for_sorted" /\ k <= Len(sorted_furniture)) =>
             LET item == furniture[sorted_furniture[k]]
                 zl   == BelowGridSize(item.dimensions.length)
                 zw   == BelowGridSize(item.dimensions.width)
                 il   == IF zl THEN 0 ELSE ToGridUnits(item.dimensions.length)
                 iw   == IF zw THEN 0 ELSE ToGridUnits(item.dimensions.width)
             IN  (zl \/ zw) =>
                    /\ k' = k + 1
                    /\ (il <= occupancy_grid.shape[2]
                          /\ iw <= occupancy_grid.shape[1]) =>
                          /\ Len(positioned_furniture')
                                = Len(positioned_furniture) + 1
                          /\ positioned_furniture'[Len(positioned_furniture')]
                                .position = << 0, 0 >>
                          /\ positioned_furniture'[Len(positioned_furniture')]
                                .type = item.type
                          /\ occupancy_grid' = occupancy_grid
          ]_vars

\* a bookshelf (1 x 0 cells) and a nightstand (0 x 0 cells) both returned at
\* (0, 0), on top of an item that occupies cell (0, 0)
C11_Witness ==
    /\ pc = "positioned"
    /\ Len(positioned_furniture) = 3
    /\ Block(1) # {}
    /\ occupancy_grid.cell[<< 0, 0 >>] = 1
    /\ positioned_furniture[2].type = "bookshelf"
    /\ positioned_furniture[2].position = << 0, 0 >>
    /\ positioned_furniture[3].type = "nightstand"
    /\ positioned_furniture[3].position = << 0, 0 >>

\* the rectangle drawn for the n-th returned item, in tenths of a metre:
\* lower-left corner = position, extent = dimensions.length x dimensions.width
Rect(n) ==
    LET p == positioned_furniture[n]
    IN  [x0 |-> p.position[1], y0 |-> p.position[2],
         x1 |-> p.position[1] + p.dimensions.length,
         y1 |-> p.position[2] + p.dimensions.width]

\* two rectangles share no interior point
InteriorsDisjoint(a, b) ==
    \/ a.x1 <= b.x0 \/ b.x1 <= a.x0
    \/ a.y1 <= b.y0 \/ b.y1 <= a.y0

\* C12: for a layout of a catalog room type in a room of at least 1 m by
\* 1 m, the rectangles of any two distinct positioned items have disjoint
\* interiors.
C12_DrawnRectanglesDisjoint ==
    (Placing /\ length >= 10 /\ width >= 10 /\ room_type \in CatalogKeys) =>
        \A a, b \in 1..Len(positioned_furniture) :
            a # b => InteriorsDisjoint(Rect(a), Rect(b))

\* C13: every positioned item lies inside the room footprint in metres.
C13_InsideRoom ==
    Placing =>
        \A n \in 1..Len(positioned_furniture) :
            /\ Rect(n).x0 >= 0
            /\ Rect(n).y0 >= 0
            /\ Rect(n).x1 <= room_length
            /\ Rect(n).y1 <= room_width

====
